---- MODULE Spec2Model ----
(***************************************************************************)
(* The intrusive binary min heap of src/heap-inl.h and the timer           *)
(* scheduler of src/timer.c that is built on it.                           *)
(*                                                                         *)
(* Pointers are node identities (NULL is 0).  A struct heap_node is a      *)
(* record of its three links; a pointer to a link field of the tree is a  *)
(* slot: the heap's min field, or the left / right field of a node.        *)
(***************************************************************************)
EXTENDS Integers, Sequences, FiniteSets

\* ------------------------------------------------------------------ bounds
NNodes == 6        \* heap nodes of the heap-only specification
MaxKey == 2        \* keys of the heap-only specification are 1..MaxKey
NHandles == 3      \* timer handles of the timer specification
WordMax == 3       \* the largest value of the unsigned word of time
MaxCounter == 3    \* cap on loop->timer_counter
MaxRepeat == 2     \* the nonzero repeat interval handles are given
MaxCbOps == 2      \* timer calls the callbacks of one pass make in all
IntMax == 2        \* the largest value of int (INT_MAX), below WordMax

NULL == 0
Nodes == 1..NNodes
Handles == 1..NHandles
Ptr == Nodes \cup {NULL}
Word == 0..WordMax

VARIABLES
  heap,           \* struct heap of the loop: [min, nelts]
  node,           \* node[n]: the struct heap_node embedded in handle n
  timer,          \* timer[n]: the uv_timer_t fields of handle n
  time,           \* loop->time
  timer_counter,  \* loop->timer_counter
  pc,             \* where uv__run_timers is: "idle", "loop", "cb", "done"
  cur,            \* the handle whose callback is running (pc = "cb")
  fired,          \* callbacks invoked in the current / last pass, in order
  touched,        \* handles a callback of this pass has operated on
  stopNote,       \* per handle: a callback stopped it while due and unfired
  startNote,      \* per handle: a callback started it in this pass
  cbOps,          \* timer calls the callbacks of this pass have made
  last            \* the last operation performed, for reference

vars == <<heap, node, timer, time, timer_counter, pc, cur, fired, touched,
          stopNote, startNote, cbOps, last>>

\* ------------------------------------------------------------ heap-inl.h

NoLinks == [left |-> NULL, right |-> NULL, parent |-> NULL]

\* heap_init: an empty heap over the given node storage.
heap_init(nd) == [min |-> NULL, nelts |-> 0, nd |-> nd]

\* heap_min
heap_min(hp) == hp.min

\* A slot is the address of a link: &heap->min, &n->left or &n->right.
MinSlot == <<"min", NULL>>
LeftSlot(n) == <<"left", n>>
RightSlot(n) == <<"right", n>>

\* *slot
Deref(hp, slot) ==
  IF slot[1] = "min" THEN hp.min
  ELSE IF slot[1] = "left" THEN hp.nd[slot[2]].left
  ELSE hp.nd[slot[2]].right

\* *slot = v
Assign(hp, slot, v) ==
  IF slot[1] = "min" THEN [hp EXCEPT !.min = v]
  ELSE IF slot[1] = "left" THEN [hp EXCEPT !.nd[slot[2]].left = v]
  ELSE [hp EXCEPT !.nd[slot[2]].right = v]

\* Mutant of CalcPath: the bits are stored in the order they are found, so the
\* walk reads the path from the leaf end.
RECURSIVE CalcPathReversed(_, _, _)
CalcPathReversed(n, path, k) ==
  IF n >= 2 THEN CalcPathReversed(n \div 2, path + ((n % 2) * (2 ^ k)), k + 1)
  ELSE <<path, k>>

\* for (k = 0, n = ...; n >= 2; k += 1, n /= 2) path = (path << 1) | (n & 1);
\* the result is <<path, k>>.
RECURSIVE CalcPath(_, _, _)
CalcPath(n, path, k) ==
  IF n >= 2 THEN CalcPath(n \div 2, (path * 2) + (n % 2), k + 1)
  ELSE <<path, k>>

\* heap_node_swap: parent and child exchange places.
heap_node_swap(hp, parent, child) ==
  LET nd0 == hp.nd
      nd1 == [nd0 EXCEPT ![parent] = nd0[child], ![child] = nd0[parent]]
      nd2 == [nd1 EXCEPT ![parent].parent = child]
      wasLeft == nd2[child].left = child
      nd3 == IF wasLeft THEN [nd2 EXCEPT ![child].left = parent]
             ELSE [nd2 EXCEPT ![child].right = parent]
      sibling == IF wasLeft THEN nd3[child].right ELSE nd3[child].left
      nd4 == IF sibling # NULL THEN [nd3 EXCEPT ![sibling].parent = child]
             ELSE nd3
      nd5 == IF nd4[parent].left # NULL
             THEN [nd4 EXCEPT ![nd4[parent].left].parent = parent] ELSE nd4
      nd6 == IF nd5[parent].right # NULL
             THEN [nd5 EXCEPT ![nd5[parent].right].parent = parent] ELSE nd5
      up == nd6[child].parent
  IN  IF up = NULL THEN [hp EXCEPT !.nd = nd6, !.min = child]
      ELSE IF nd6[up].left = parent
           THEN [hp EXCEPT !.nd = [nd6 EXCEPT ![up].left = child]]
           ELSE [hp EXCEPT !.nd = [nd6 EXCEPT ![up].right = child]]

\* Mutant of SiftUp: an if in place of the while.
SiftUpOnce(hp, n, lt) ==
  IF hp.nd[n].parent # NULL /\ lt[n, hp.nd[n].parent]
  THEN heap_node_swap(hp, hp.nd[n].parent, n)
  ELSE hp

\* while (n->parent != NULL && less_than(n, n->parent))
\*   heap_node_swap(heap, n->parent, n);
RECURSIVE SiftUp(_, _, _)
SiftUp(hp, n, lt) ==
  IF hp.nd[n].parent # NULL /\ lt[n, hp.nd[n].parent]
  THEN SiftUp(heap_node_swap(hp, hp.nd[n].parent, n), n, lt)
  ELSE hp

\* The for (;;) loop of heap_remove: swap child with its smallest child
\* until neither child sorts before it.
RECURSIVE SiftDown(_, _, _)
SiftDown(hp, child, lt) ==
  LET l == hp.nd[child].left
      r == hp.nd[child].right
      s1 == IF l # NULL /\ lt[l, child] THEN l ELSE child
      smallest == IF r # NULL /\ lt[r, s1] THEN r ELSE s1
  IN  IF smallest = child THEN hp
      ELSE SiftDown(heap_node_swap(hp, child, smallest), child, lt)

\* The traversal loop of heap_insert; the result is <<parent, child>>.
RECURSIVE InsertWalk(_, _, _, _, _)
InsertWalk(hp, parent, child, path, k) ==
  IF k > 0
  THEN InsertWalk(hp, child,
                  IF path % 2 = 1 THEN RightSlot(Deref(hp, child))
                  ELSE LeftSlot(Deref(hp, child)),
                  path \div 2, k - 1)
  ELSE <<parent, child>>

\* heap_insert
heap_insert(hp, newnode, lt) ==
  LET hp1 == [hp EXCEPT !.nd[newnode] = NoLinks]
      pk == CalcPath(1 + hp1.nelts, 0, 0)
      pc2 == InsertWalk(hp1, MinSlot, MinSlot, pk[1], pk[2])
      hp2 == [hp1 EXCEPT !.nd[newnode].parent = Deref(hp1, pc2[1])]
      hp3 == Assign(hp2, pc2[2], newnode)
      hp4 == [hp3 EXCEPT !.nelts = hp3.nelts + 1]
  IN  SiftUp(hp4, newnode, lt)

\* The traversal loop of heap_remove; the result is the slot max.
RECURSIVE RemoveWalk(_, _, _, _)
RemoveWalk(hp, max, path, k) ==
  IF k > 0
  THEN RemoveWalk(hp,
                  IF path % 2 = 1 THEN RightSlot(Deref(hp, max))
                  ELSE LeftSlot(Deref(hp, max)),
                  path \div 2, k - 1)
  ELSE max

\* Mutant of Splice: the link of node's parent (or heap->min) is not moved
\* to the replacement.
SpliceKeepsLink(hp, child, n) ==
  LET hp1 == [hp EXCEPT !.nd[child] = hp.nd[n]]
      hp2 == IF hp1.nd[child].left # NULL
             THEN [hp1 EXCEPT !.nd[hp1.nd[child].left].parent = child]
             ELSE hp1
  IN  IF hp2.nd[child].right # NULL
      THEN [hp2 EXCEPT !.nd[hp2.nd[child].right].parent = child]
      ELSE hp2

\* Lines 217-238 of heap_remove: the unlinked last node takes node's place.
Splice(hp, child, n) ==
  LET hp1 == [hp EXCEPT !.nd[child] = hp.nd[n]]
      hp2 == IF hp1.nd[child].left # NULL
             THEN [hp1 EXCEPT !.nd[hp1.nd[child].left].parent = child]
             ELSE hp1
      hp3 == IF hp2.nd[child].right # NULL
             THEN [hp2 EXCEPT !.nd[hp2.nd[child].right].parent = child]
             ELSE hp2
      up == hp3.nd[n].parent
  IN  IF up = NULL THEN [hp3 EXCEPT !.min = child]
      ELSE IF hp3.nd[up].left = n THEN [hp3 EXCEPT !.nd[up].left = child]
      ELSE [hp3 EXCEPT !.nd[up].right = child]

\* Mutants of Repair: the walk up is left out; the walk down is left out.
RepairNoUp(hp, child, lt) == SiftDown(hp, child, lt)
RepairNoDown(hp, child, lt) == SiftUp(hp, child, lt)

\* Lines 240-264 of heap_remove: walk down, then walk up.
Repair(hp, child, lt) == SiftUp(SiftDown(hp, child, lt), child, lt)

\* heap_remove
heap_remove(hp, n, lt) ==
  IF hp.nelts = 0 THEN hp
  ELSE
    LET pk == CalcPath(hp.nelts, 0, 0)
        max == RemoveWalk(hp, MinSlot, pk[1], pk[2])
        hp1 == [hp EXCEPT !.nelts = hp.nelts - 1]
        child == Deref(hp1, max)
        hp2 == Assign(hp1, max, NULL)
    IN  IF child = n
        THEN (IF child = hp2.min THEN [hp2 EXCEPT !.min = NULL] ELSE hp2)
        ELSE Repair(Splice(hp2, child, n), child, lt)

\* heap_dequeue
heap_dequeue(hp, lt) == heap_remove(hp, hp.min, lt)

\* ---------------------------------------------------------------- timer.c

\* Mutant of timer_less_than: the tie on timeout is broken the wrong way.
timer_less_than_rev(a, b) ==
  IF a.timeout < b.timeout THEN TRUE
  ELSE IF b.timeout < a.timeout THEN FALSE
  ELSE a.start_id > b.start_id

\* timer_less_than on two uv_timer_t records.
timer_less_than(a, b) ==
  IF a.timeout < b.timeout THEN TRUE
  ELSE IF b.timeout < a.timeout THEN FALSE
  ELSE a.start_id < b.start_id

\* The comparator as the value handed to the heap functions.
LessThan(tm) == [a \in Nodes, b \in Nodes |-> timer_less_than(tm[a], tm[b])]

\* The heap as the heap functions see it, and back.
Hp == [min |-> heap.min, nelts |-> heap.nelts, nd |-> node]

\* The nodes reachable from n through left / right links, at most d deep.
RECURSIVE Below(_, _, _)
Below(nd, n, d) ==
  IF n = NULL \/ d = 0 THEN {}
  ELSE {n} \cup Below(nd, nd[n].left, d - 1) \cup Below(nd, nd[n].right, d - 1)

\* The links of a node that has left the heap are dead storage: nothing reads
\* them before heap_insert clears them (lines 123-125), and the state keeps
\* them cleared.
SetHeap(hp) ==
  /\ heap' = [min |-> hp.min, nelts |-> hp.nelts]
  /\ node' = [n \in Nodes |->
               IF n \in Below(hp.nd, hp.min, NNodes + 1) THEN hp.nd[n]
               ELSE NoLinks]

\* uv_timer_init
InitTimer ==
  [timer_cb |-> NULL, timeout |-> 0, repeat |-> 0, start_id |-> 0,
   active |-> FALSE, closing |-> FALSE]

\* The error code uv_timer_start and uv_timer_again return.
UV_EINVAL == -22

\* Mutant of ClampedTimeout: the wrapped sum is kept.
ClampedTimeoutWrapped(t, timeout) == (t + timeout) % (WordMax + 1)

\* clamped_timeout of uv_timer_start: loop->time + timeout in the unsigned
\* word, or the largest word when the sum wrapped.
ClampedTimeout(t, timeout) ==
  LET sum == (t + timeout) % (WordMax + 1)
  IN  IF sum < timeout THEN WordMax ELSE sum

\* The timer functions act on a world w: the heap (hp), the handles (tm),
\* loop->timer_counter (counter), loop->time (time) and the value the last
\* call returned (rc).
World == [hp |-> Hp, tm |-> timer, counter |-> timer_counter, time |-> time,
          rc |-> 0]

\* uv__is_active, uv__is_closing
uv__is_active(w, h) == w.tm[h].active
uv__is_closing(w, h) == w.tm[h].closing

\* Mutant of uv_timer_stop: the test of uv__is_active is left out.
uv_timer_stop_unguarded(w, h) ==
  [w EXCEPT !.hp = heap_remove(w.hp, h, LessThan(w.tm)),
            !.tm[h].active = FALSE,
            !.rc = 0]

\* uv_timer_stop
uv_timer_stop(w, h) ==
  IF ~uv__is_active(w, h) THEN [w EXCEPT !.rc = 0]
  ELSE [w EXCEPT !.hp = heap_remove(w.hp, h, LessThan(w.tm)),
                 !.tm[h].active = FALSE,
                 !.rc = 0]

\* Mutant of StartFields: the handle keeps the start_id it had.
StartFieldsNoStamp(w1, h, cb, timeout, repeat) ==
  [w1 EXCEPT !.tm[h].timer_cb = cb,
             !.tm[h].timeout = ClampedTimeout(w1.time, timeout),
             !.tm[h].repeat = repeat,
             !.counter = w1.counter + 1]

\* Lines 82-94 of uv_timer_start: the fields of the handle and the counter.
StartFields(w1, h, cb, timeout, repeat) ==
  [w1 EXCEPT !.tm[h].timer_cb = cb,
             !.tm[h].timeout = ClampedTimeout(w1.time, timeout),
             !.tm[h].repeat = repeat,
             !.tm[h].start_id = w1.counter,
             !.counter = w1.counter + 1]

\* Mutant of StartInsert: uv__handle_start is left out.
StartInsertNoFlag(w2, h) ==
  [w2 EXCEPT !.hp = heap_insert(w2.hp, h, LessThan(w2.tm)),
             !.rc = 0]

\* Lines 98-104 of uv_timer_start: heap_insert, uv__handle_start, return 0.
StartInsert(w2, h) ==
  [w2 EXCEPT !.hp = heap_insert(w2.hp, h, LessThan(w2.tm)),
             !.tm[h].active = TRUE,
             !.rc = 0]

\* Mutant of uv_timer_start: the arguments are tested after the handle has
\* been stopped.
uv_timer_start_latecheck(w, h, cb, timeout, repeat) ==
  IF uv__is_closing(w, h) \/ cb = NULL
  THEN [uv_timer_stop(w, h) EXCEPT !.rc = UV_EINVAL]
  ELSE StartInsert(StartFields(uv_timer_stop(w, h), h, cb, timeout, repeat), h)

\* uv_timer_start
uv_timer_start(w, h, cb, timeout, repeat) ==
  IF uv__is_closing(w, h) \/ cb = NULL THEN [w EXCEPT !.rc = UV_EINVAL]
  ELSE StartInsert(StartFields(IF uv__is_active(w, h) THEN uv_timer_stop(w, h)
                                ELSE w,
                               h, cb, timeout, repeat), h)

\* Mutant of uv_timer_again: the new deadline is counted from the previous
\* deadline, not from loop->time.
uv_timer_again_drift(w, h) ==
  IF w.tm[h].timer_cb = NULL THEN [w EXCEPT !.rc = UV_EINVAL]
  ELSE IF w.tm[h].repeat # 0
       THEN [uv_timer_start([uv_timer_stop(w, h) EXCEPT
                               !.time = w.tm[h].timeout],
                            h, w.tm[h].timer_cb, w.tm[h].repeat,
                            w.tm[h].repeat)
               EXCEPT !.rc = 0, !.time = w.time]
       ELSE [w EXCEPT !.rc = 0]

\* uv_timer_again
uv_timer_again(w, h) ==
  IF w.tm[h].timer_cb = NULL THEN [w EXCEPT !.rc = UV_EINVAL]
  ELSE IF w.tm[h].repeat # 0
       THEN [uv_timer_start(uv_timer_stop(w, h), h, w.tm[h].timer_cb,
                            w.tm[h].repeat, w.tm[h].repeat)
               EXCEPT !.rc = 0]
       ELSE [w EXCEPT !.rc = 0]

\* uv_timer_set_repeat
uv_timer_set_repeat(w, h, repeat) == [w EXCEPT !.tm[h].repeat = repeat]

\* uv__timer_close
uv__timer_close(w, h) == uv_timer_stop(w, h)

\* Mutant of uv_timer_get_due_in: the unsigned difference without the test.
uv_timer_get_due_in_wrapped(w, h) ==
  (w.tm[h].timeout - w.time) % (WordMax + 1)

\* uv_timer_get_due_in
uv_timer_get_due_in(w, h) ==
  IF w.time >= w.tm[h].timeout THEN 0
  ELSE (w.tm[h].timeout - w.time) % (WordMax + 1)

\* Mutant of uv__next_timeout: diff is not held to INT_MAX.
uv__next_timeout_unclamped(w) ==
  IF heap_min(w.hp) = NULL THEN 0 - 1
  ELSE IF w.tm[heap_min(w.hp)].timeout <= w.time THEN 0
  ELSE (w.tm[heap_min(w.hp)].timeout - w.time) % (WordMax + 1)

\* diff of uv__next_timeout, held to INT_MAX.
ClampInt(diff) == IF diff > IntMax THEN IntMax ELSE diff

\* uv__next_timeout; -1 is "block indefinitely".
uv__next_timeout(w) ==
  IF heap_min(w.hp) = NULL THEN 0 - 1
  ELSE IF w.tm[heap_min(w.hp)].timeout <= w.time THEN 0
  ELSE ClampInt((w.tm[heap_min(w.hp)].timeout - w.time) % (WordMax + 1))

\* The handles whose callback this pass has invoked.
FiredHandles == {fired[i].h : i \in DOMAIN fired}

\* Mutant of PeekMin: the pass walks the handles that were due when it
\* began instead of reading the heap again.
PeekSnapshot(w) ==
  LET cand == {h \in Handles : /\ w.tm[h].timer_cb # NULL
                               /\ w.tm[h].timeout <= w.time
                               /\ h \notin FiredHandles}
  IN  IF cand = {} THEN NULL
      ELSE CHOOSE h \in cand :
             \A g \in cand \ {h} : timer_less_than(w.tm[h], w.tm[g])

\* heap_node = heap_min(timer_heap(loop)) at the top of each iteration.
PeekMin(w) == heap_min(w.hp)

\* Mutants of NotDue: nothing ends the pass; a deadline equal to loop->time
\* ends it.
NotDueNever(w, h) == FALSE
NotDueEq(w, h) == w.tm[h].timeout >= w.time

\* The test of uv__run_timers that ends the pass: handle->timeout > loop->time.
NotDue(w, h) == w.tm[h].timeout > w.time

\* Mutant of TakeDue: the callback is called before the handle is taken out.
TakeDueLate(w, h) == w

\* One iteration of uv__run_timers up to the call of the callback.
TakeDue(w, h) == uv_timer_again(uv_timer_stop(w, h), h)

\* ------------------------------------------------- what the claims speak of

Reach == Below(node, heap.min, NNodes + 1)

\* The node at position i (1 is the root, 2i and 2i+1 the children of i).
RECURSIVE At(_)
At(i) ==
  IF i = 1 THEN heap.min
  ELSE LET p == At(i \div 2)
       IN  IF p = NULL THEN NULL
           ELSE IF i % 2 = 0 THEN node[p].left ELSE node[p].right

\* ------------------------------------------------- heap-only specification

\* The number of parent links from n up to the root.
RECURSIVE Depth(_, _, _)
Depth(nd, n, fuel) ==
  IF fuel = 0 \/ nd[n].parent = NULL THEN 0
  ELSE 1 + Depth(nd, nd[n].parent, fuel - 1)

\* Where the last node went when heap_remove put it in place of n.
Moved(hp, n, res) ==
  LET lastNode == Deref(hp, RemoveWalk(hp, MinSlot, CalcPath(hp.nelts, 0, 0)[1],
                                       CalcPath(hp.nelts, 0, 0)[2]))
      was == Depth(hp.nd, n, NNodes)
      now == Depth(res.nd, lastNode, NNodes)
  IN  IF lastNode = n THEN "none"
      ELSE IF now < was THEN "up"
      ELSE IF now > was THEN "down"
      ELSE "same"

NoOp == [op |-> "none", moved |-> "none"]

\* Keys start at 1 and rise by 0 or 1 from one node to the next: node names
\* carry no meaning and only the order of the keys matters, so this loses no
\* case of at most MaxKey different keys.  Equal keys are order-equivalent.
HeapInit ==
  /\ heap = [min |-> NULL, nelts |-> 0]
  /\ node = [n \in Nodes |-> NoLinks]
  /\ \E key \in [Nodes -> 1..MaxKey] :
       /\ key[1] = 1
       /\ \A n \in Nodes : n + 1 \in Nodes => key[n + 1] - key[n] \in {0, 1}
       /\ timer = [n \in Nodes |-> [InitTimer EXCEPT !.timeout = key[n]]]
  /\ time = 0
  /\ timer_counter = 0
  /\ pc = "idle"
  /\ cur = NULL
  /\ fired = <<>>
  /\ touched = {}
  /\ stopNote = [n \in Nodes |-> "none"]
  /\ startNote = [n \in Nodes |-> "none"]
  /\ cbOps = 0
  /\ last = NoOp

HeapFrame == UNCHANGED <<time, timer_counter, pc, cur, fired, touched,
                         stopNote, startNote, cbOps>>

\* heap_insert of a node that is not in the heap.
HeapInsert(n) ==
  /\ ~timer[n].active
  /\ SetHeap(heap_insert(Hp, n, LessThan(timer)))
  /\ timer' = [timer EXCEPT ![n].active = TRUE]
  /\ last' = [op |-> "insert", moved |-> "none"]
  /\ HeapFrame

\* heap_remove of a node that is in the heap.
HeapRemove(n) ==
  /\ timer[n].active
  /\ LET res == heap_remove(Hp, n, LessThan(timer))
     IN  /\ SetHeap(res)
         /\ last' = [op |-> "remove", moved |-> Moved(Hp, n, res)]
  /\ timer' = [timer EXCEPT ![n].active = FALSE]
  /\ HeapFrame

\* heap_dequeue, also of an empty heap.
HeapDequeue ==
  /\ SetHeap(heap_dequeue(Hp, LessThan(timer)))
  /\ timer' = [n \in Nodes |->
                 IF n = heap.min THEN [timer[n] EXCEPT !.active = FALSE]
                 ELSE timer[n]]
  /\ last' = [op |-> "dequeue", moved |-> "none"]
  /\ HeapFrame

HeapNext ==
  \/ \E n \in Nodes : HeapInsert(n)
  \/ \E n \in Nodes : HeapRemove(n)
  \/ HeapDequeue

HeapSpec == HeapInit /\ [][HeapNext]_vars

\* ---------------------------------------------------- timer specification

CB == 1                        \* the one callback the handles are given
Callbacks == {NULL, CB}
Timeouts == {0, 1}             \* timeout arguments of uv_timer_start
Repeats == {0, MaxRepeat}      \* repeat arguments

NoNotes == [n \in Nodes |-> "none"]

Init ==
  /\ heap = [min |-> NULL, nelts |-> 0]
  /\ node = [n \in Nodes |-> NoLinks]
  /\ timer = [n \in Nodes |-> InitTimer]
  /\ time = 0
  /\ timer_counter = 0
  /\ pc = "idle"
  /\ cur = NULL
  /\ fired = <<>>
  /\ touched = {}
  /\ stopNote = NoNotes
  /\ startNote = NoNotes
  /\ cbOps = 0
  /\ last = NoOp

\* User code runs between passes and inside a callback.
UserCode == pc \in {"idle", "done"} \/ (pc = "cb" /\ cbOps < MaxCbOps)

Commit(w) ==
  /\ SetHeap(w.hp)
  /\ timer' = w.tm
  /\ timer_counter' = w.counter
  /\ UNCHANGED <<time, last>>

\* What a call on handle h that led to world w leaves in the record of the
\* pass: inside a callback the notes on h, between passes nothing.
Record(h, w, isStop) ==
  LET started == w.counter # timer_counter
      stopped == timer[h].active /\ ~w.tm[h].active
  IN  IF pc = "cb"
      THEN /\ touched' = touched \cup {h}
           /\ stopNote' = [stopNote EXCEPT ![h] =
                IF /\ isStop /\ h # cur /\ timer[h].active
                   /\ timer[h].timeout <= time /\ h \notin FiredHandles
                THEN "stopped"
                ELSE IF started /\ @ = "stopped" THEN "restarted"
                ELSE @]
           /\ startNote' = [startNote EXCEPT ![h] =
                IF started
                THEN (IF w.tm[h].timeout <= time THEN "due" ELSE "late")
                ELSE IF stopped /\ @ = "due" THEN "dueCancelled"
                ELSE IF stopped /\ @ = "late" THEN "none"
                ELSE @]
           /\ cbOps' = cbOps + 1
           /\ UNCHANGED <<pc, cur, fired>>
      ELSE /\ touched' = {}
           /\ stopNote' = NoNotes
           /\ startNote' = NoNotes
           /\ fired' = <<>>
           /\ cbOps' = 0
           /\ pc' = "idle"
           /\ cur' = NULL

\* uv_timer_init of a handle that is not active.
TimerInit(h) ==
  /\ pc \in {"idle", "done"}
  /\ ~timer[h].active
  /\ Commit([World EXCEPT !.tm[h] = [InitTimer EXCEPT !.start_id =
                                                      timer[h].start_id]])
  /\ Record(h, World, FALSE)

\* Handles get their first start in the order of their names: the names
\* carry no meaning, so this loses no case.
FirstStartInOrder(h) ==
  timer[h].timer_cb = NULL => \A g \in Handles : g < h => timer[g].timer_cb # NULL

Start(h, cb, timeout, repeat) ==
  /\ UserCode
  /\ timer_counter < MaxCounter
  /\ FirstStartInOrder(h)
  /\ \E w \in {uv_timer_start(World, h, cb, timeout, repeat)} :
       Commit(w) /\ Record(h, w, FALSE)

Stop(h) ==
  /\ UserCode
  /\ \E w \in {uv_timer_stop(World, h)} :
       Commit(w) /\ Record(h, w, TRUE)

Again(h) ==
  /\ UserCode
  /\ timer_counter < MaxCounter
  /\ \E w \in {uv_timer_again(World, h)} :
       Commit(w) /\ Record(h, w, FALSE)

SetRepeat(h, repeat) ==
  /\ UserCode
  /\ \E w \in {uv_timer_set_repeat(World, h, repeat)} :
       Commit(w) /\ Record(h, w, FALSE)

\* uv_close of a timer handle: the handle is flagged closing and
\* uv__timer_close stops it.
Close(h) ==
  /\ UserCode
  /\ ~timer[h].closing
  /\ \E w \in {uv__timer_close([World EXCEPT !.tm[h].closing = TRUE], h)} :
       Commit(w) /\ Record(h, w, FALSE)

\* The loop refreshes loop->time between passes.
UpdateTime ==
  /\ pc \in {"idle", "done"}
  /\ time < WordMax
  /\ time' = time + 1
  /\ pc' = "idle"
  /\ cur' = NULL
  /\ fired' = <<>>
  /\ touched' = {}
  /\ stopNote' = NoNotes
  /\ startNote' = NoNotes
  /\ cbOps' = 0
  /\ UNCHANGED <<heap, node, timer, timer_counter, last>>

\* uv__run_timers is called.
RunTimersEnter ==
  /\ pc \in {"idle", "done"}
  /\ pc' = "loop"
  /\ cur' = NULL
  /\ fired' = <<>>
  /\ touched' = {}
  /\ stopNote' = NoNotes
  /\ startNote' = NoNotes
  /\ cbOps' = 0
  /\ UNCHANGED <<heap, node, timer, time, timer_counter, last>>

\* One iteration of the for (;;) of uv__run_timers, up to the callback.
RunTimersStep ==
  /\ pc = "loop"
  /\ LET h == PeekMin(World)
     IN  IF h = NULL \/ NotDue(World, h)
         THEN /\ pc' = "done"
              /\ UNCHANGED <<heap, node, timer, time, timer_counter, cur,
                             fired, touched, stopNote, startNote, cbOps,
                             last>>
         ELSE /\ timer[h].repeat # 0 => timer_counter < MaxCounter
              /\ Commit(TakeDue(World, h))
              /\ pc' = "cb"
              /\ cur' = h
              /\ fired' = Append(fired, [h |-> h,
                                         timeout |-> timer[h].timeout,
                                         start_id |-> timer[h].start_id,
                                         repeat |-> timer[h].repeat])
              /\ startNote' = [startNote EXCEPT ![h] =
                   IF @ = "due" THEN "dueFired"
                   ELSE IF @ = "late" THEN "lateFired" ELSE @]
              /\ UNCHANGED <<touched, stopNote, cbOps>>

\* The callback returns to uv__run_timers.
CbReturn ==
  /\ pc = "cb"
  /\ pc' = "loop"
  /\ cur' = NULL
  /\ UNCHANGED <<heap, node, timer, time, timer_counter, fired, touched,
                 stopNote, startNote, cbOps, last>>

Next ==
  \/ \E h \in Handles, cb \in Callbacks, t \in Timeouts, r \in Repeats :
       Start(h, cb, t, r)
  \/ \E h \in Handles : Stop(h)
  \/ \E h \in Handles : Again(h)
  \/ UpdateTime
  \/ RunTimersEnter
  \/ RunTimersStep
  \/ CbReturn

Spec == Init /\ [][Next]_vars

\* ------------------------------------------------------------------ claims

Members == {n \in Nodes : timer[n].active}

\* The positions a tree of NNodes nodes and their children can occupy.
Positions == 1..((2 * NNodes) + 1)

\* The links from heap.min form a complete binary tree of nelts nodes:
\* exactly the positions 1..nelts are occupied, by different nodes, and
\* nothing else is reachable.
Complete ==
  /\ \A i \in Positions : (At(i) # NULL) <=> (i <= heap.nelts)
  /\ \A i, j \in 1..heap.nelts : At(i) = At(j) => i = j
  /\ Reach = {At(i) : i \in 1..heap.nelts}
  /\ Cardinality(Reach) = heap.nelts

\* No present child sorts strictly before its parent.
Ordered ==
  \A n \in Reach :
    /\ node[n].left # NULL => ~LessThan(timer)[node[n].left, n]
    /\ node[n].right # NULL => ~LessThan(timer)[node[n].right, n]

\* C1: after any sequence of heap_insert / heap_remove calls (of any node in
\* the heap) the nodes reachable from heap.min form a complete binary tree
\* and their number is heap.nelts.
C1_HeapShape == Complete

\* A removal of a node that was not the last one, leaving at least 4 nodes.
C1_Witness ==
  last.op = "remove" /\ last.moved # "none" /\ heap.nelts >= 4

\* C2: after any sequence of heap_insert / heap_remove calls no node has a
\* child that the comparator sorts strictly before it.
C2_HeapOrder == Ordered

\* A removal whose replacement, the former last node, moved upward.
C2_Witness == last.op = "remove" /\ last.moved = "up"

\* C3: heap_min is absent iff the heap holds no element, and otherwise it is
\* an element of the heap that no element of the heap sorts strictly before.
C3_MinCorrect ==
  /\ (heap_min(Hp) = NULL) <=> (Members = {})
  /\ heap_min(Hp) # NULL =>
       /\ heap_min(Hp) \in Members
       /\ \A m \in Members : ~LessThan(timer)[m, heap_min(Hp)]

\* The minimum of a heap that a dequeue has left with several elements.
C3_Witness == last.op = "dequeue" /\ heap.nelts >= 3 /\ heap_min(Hp) # NULL

\* ------------------------------------------------------- claims on passes

\* (deadline, start_id) of one firing sorts strictly before that of another.
KeyBefore(a, b) ==
  \/ a.timeout < b.timeout
  \/ a.timeout = b.timeout /\ a.start_id < b.start_id

\* C4: within one pass whose callbacks perform no timer operations the
\* callbacks are invoked in strictly ascending (deadline, start_id) order.
C4_FiringOrder ==
  touched = {} =>
    \A i, j \in DOMAIN fired : i < j => KeyBefore(fired[i], fired[j])

\* Three handles fired untouched, the last two with one deadline.
C4_Witness ==
  /\ touched = {}
  /\ Len(fired) = 3
  /\ fired[1].timeout < fired[2].timeout
  /\ fired[2].timeout = fired[3].timeout

\* C5: whenever uv__run_timers returns, the heap is empty or every active
\* handle has a deadline strictly greater than loop->time.
C5_DrainComplete ==
  pc = "done" =>
    \/ heap.nelts = 0
    \/ \A h \in Handles : timer[h].active => timer[h].timeout > time

\* A pass with callback operations returned and left a handle in the heap.
C5_Witness ==
  pc = "done" /\ fired # <<>> /\ touched # {} /\ heap.nelts > 0

\* C6: an iteration of uv__run_timers invokes the callback of a handle only
\* if the handle was active, at the heap's minimum and had a deadline <=
\* loop->time; an active handle with a later deadline is not fired and keeps
\* its fields and its place in the heap.
C6_NoEarlyFiring ==
  [][pc = "loop" =>
       /\ pc' = "cb" =>
            /\ timer[cur'].active
            /\ timer[cur'].timeout <= time
            /\ cur' = heap.min
       /\ \A h \in Handles :
            (timer[h].active /\ timer[h].timeout > time) =>
              /\ timer'[h] = timer[h]
              /\ h \in Reach'
              /\ ~(pc' = "cb" /\ cur' = h)]_vars

\* A callback runs while a handle that is not yet due waits in the heap.
C6_Witness ==
  /\ pc = "cb"
  /\ \E h \in Handles : timer[h].active /\ timer[h].timeout > time
                          /\ h \notin FiredHandles

\* How often the pass has fired h.
Fired(h) == Cardinality({i \in DOMAIN fired : fired[i].h = h})

\* t + r, or the largest word if that is smaller.
Saturated(t, r) == IF t + r > WordMax THEN WordMax ELSE t + r

NotFiredStopped(b) ==
  /\ b \notin FiredHandles
  /\ pc = "done" => ~timer[b].active

\* C8 as stated: a handle that the callback of another handle stopped while
\* it was active, due and unfired is not fired in this pass and is inactive
\* when the pass returns.
C8_Original ==
  \A b \in Handles : stopNote[b] \in {"stopped", "restarted"} =>
                        NotFiredStopped(b)

\* C8 amended: ... provided no callback starts the handle again later in
\* the pass.
C8_ReentrantStop ==
  \A b \in Handles : stopNote[b] = "stopped" => NotFiredStopped(b)

\* The pass returned after a callback stopped a due handle.
C8_Witness ==
  pc = "done" /\ \E b \in Handles : stopNote[b] = "stopped"

\* C9: when uv__run_timers invokes a callback the handle has been removed
\* from the heap and, iff its repeat is nonzero, put back active with the
\* deadline counted from loop->time and a start_id above its old one and
\* above that of every other active handle; and in every state, those
\* inside callbacks that stop, start or restart any handle included, the
\* heap is a complete tree in heap order that holds no handle twice.
C9_CallbackState ==
  /\ [](Complete /\ Ordered)
  /\ [][(pc = "loop" /\ pc' = "cb") =>
          /\ timer[cur'].repeat = 0 =>
               /\ ~timer'[cur'].active
               /\ cur' \notin Reach'
          /\ timer[cur'].repeat # 0 =>
               /\ timer'[cur'].active
               /\ cur' \in Reach'
               /\ timer'[cur'].timeout = Saturated(time, timer[cur'].repeat)
               /\ timer'[cur'].start_id > timer[cur'].start_id
               /\ \A g \in Handles \ {cur'} :
                    timer[g].active => timer'[cur'].start_id > timer[g].start_id]_vars

\* A callback of a repeating handle has operated on its own handle.
C9_Witness ==
  /\ pc = "cb"
  /\ cur \in touched
  /\ fired[Len(fired)].repeat # 0

\* C10 as stated: a handle that a callback started with a deadline <=
\* loop->time is fired later in the pass, and one started with a later
\* deadline is not fired in the pass.
C10_Original ==
  /\ pc = "done" =>
       \A h \in Handles : startNote[h] \notin {"due", "dueCancelled"}
  /\ \A h \in Handles : startNote[h] # "lateFired"

\* C10 amended: ... provided no callback stops or restarts the handle
\* after that start.
C10_MidDrainStart ==
  /\ pc = "done" => \A h \in Handles : startNote[h] # "due"
  /\ \A h \in Handles : startNote[h] # "lateFired"

\* The pass returned after firing a handle that a callback had started,
\* and another that a callback started for later is still waiting.
C10_Witness ==
  /\ pc = "done"
  /\ \E h \in Handles : startNote[h] = "dueFired"
  /\ \E g \in Handles : startNote[g] = "late" /\ timer[g].active

\* ------------------------------------------------- termination of a pass

\* loop->timer_counter is an unsigned word: the increment of line 94 wraps.
WrapCounter(w) == [w EXCEPT !.counter = w.counter % (MaxCounter + 1)]

\* One iteration of uv__run_timers with the counter as a word that wraps, so
\* that no bound of the model ends a pass the code would go on with.  The
\* record of the pass is not kept.
RunTimersStepFree ==
  /\ pc = "loop"
  /\ \E h \in {PeekMin(World)} :
       IF h = NULL \/ NotDue(World, h)
       THEN /\ pc' = "done"
            /\ cur' = NULL
            /\ UNCHANGED <<heap, node, timer, time, timer_counter, last>>
       ELSE /\ Commit(WrapCounter(TakeDue(World, h)))
            /\ pc' = "cb"
            /\ cur' = h
  /\ UNCHANGED <<fired, touched, stopNote, startNote, cbOps>>

\* uv_timer_start called between passes only, once for each handle.
StartOutside(h, cb, timeout, repeat) ==
  /\ pc \in {"idle", "done"}
  /\ timer[h].timer_cb = NULL
  /\ Start(h, cb, timeout, repeat)

\* uv_timer_stop, between passes or from a callback.
StopAnywhere(h) ==
  /\ pc \in {"idle", "done", "cb"}
  /\ \E w \in {uv_timer_stop(World, h)} : Commit(w)
  /\ UNCHANGED <<pc, cur, fired, touched, stopNote, startNote, cbOps>>

\* Passes whose callbacks call neither uv_timer_start nor uv_timer_again.
LiveNext ==
  \/ \E h \in Handles, cb \in Callbacks, t \in Timeouts, r \in Repeats :
       StartOutside(h, cb, t, r)
  \/ \E h \in Handles : StopAnywhere(h)
  \/ UpdateTime
  \/ RunTimersEnter
  \/ RunTimersStepFree
  \/ CbReturn

\* The step of a pass out of the top of its loop, and the return of a
\* callback, told by pc alone: of the actions of LiveNext only
\* RunTimersStepFree and CbReturn take these steps, and they are enabled
\* whenever pc is "loop" and "cb".
PassMoves == pc = "loop" /\ pc' \in {"cb", "done"}
CallbackReturns == pc = "cb" /\ pc' = "loop"

\* uv__run_timers is straight-line code and a callback returns: once called,
\* the pass goes on taking steps.
LiveSpec ==
  /\ Init
  /\ [][LiveNext]_vars
  /\ WF_pc(PassMoves)
  /\ WF_pc(CallbackReturns)

\* C11 as stated: every pass whose callbacks make no start or again call
\* reaches its return, at every loop->time and for every set of one-shot and
\* repeating handles.
C11_PassTerminates == (pc = "loop") ~> (pc = "done")

\* What the code does guarantee: a pass at a loop->time below the largest
\* word reaches its return.
C11_TerminatesBelowMax == (pc = "loop" /\ time < WordMax) ~> (pc = "done")

\* ------------------------------------------- the whole timer interface

\* uv_timer_init, uv_timer_start, uv_timer_stop, uv_timer_again, the close
\* of a handle and uv__run_timers; the calls are made between passes and
\* from callbacks.
FullNext ==
  \/ Next
  \/ \E h \in Handles : TimerInit(h)
  \/ \E h \in Handles : Close(h)

FullSpec == Init /\ [][FullNext]_vars

\* --------------------------------------------- calls and what they return

\* A call of a timer function between passes: the world w it leaves is
\* stored and last keeps the function, the handle, the value returned, the
\* callback and timeout arguments and whether the handle was active before
\* the call.
ApiDo(op, h, cb, timeout, w) ==
  /\ pc \in {"idle", "done"}
  /\ last = NoOp
  /\ SetHeap(w.hp)
  /\ timer' = w.tm
  /\ timer_counter' = w.counter
  /\ last' = [op |-> op, moved |-> "none", h |-> h, rc |-> w.rc,
              cb |-> cb, timeout |-> timeout, was |-> timer[h].active]
  /\ pc' = "idle"
  /\ cur' = NULL
  /\ fired' = <<>>
  /\ UNCHANGED <<time, touched, stopNote, startNote, cbOps>>

ApiStart(h, cb, timeout, repeat) ==
  /\ timer_counter < MaxCounter
  /\ FirstStartInOrder(h)
  /\ \E w \in {uv_timer_start(World, h, cb, timeout, repeat)} :
       ApiDo("start", h, cb, timeout, w)

ApiStop(h) ==
  \E w \in {uv_timer_stop(World, h)} : ApiDo("stop", h, NULL, 0, w)

ApiAgain(h) ==
  /\ timer_counter < MaxCounter
  /\ \E w \in {uv_timer_again(World, h)} : ApiDo("again", h, NULL, 0, w)

\* uv_close of a timer handle: the handle is flagged closing and
\* uv__timer_close stops it.
ApiClose(h) ==
  /\ ~timer[h].closing
  /\ \E w \in {uv__timer_close([World EXCEPT !.tm[h].closing = TRUE], h)} :
       ApiDo("close", h, NULL, 0, w)

\* A call between passes of a function that changes nothing: last keeps the
\* function, the handle and the value returned.
ApiQuery(op, h, rc) ==
  /\ pc \in {"idle", "done"}
  /\ last = NoOp
  /\ last' = [op |-> op, moved |-> "none", h |-> h, rc |-> rc,
              cb |-> NULL, timeout |-> 0, was |-> FALSE]
  /\ pc' = "idle"
  /\ cur' = NULL
  /\ fired' = <<>>
  /\ UNCHANGED <<heap, node, timer, time, timer_counter, touched, stopNote,
                 startNote, cbOps>>

ApiNextTimeout == ApiQuery("next_timeout", NULL, uv__next_timeout(World))

ApiGetDueIn(h) == ApiQuery("get_due_in", h, uv_timer_get_due_in(World, h))

\* The call returns to its caller, which goes on.
ApiReturn ==
  /\ last # NoOp
  /\ last' = NoOp
  /\ UNCHANGED <<heap, node, timer, time, timer_counter, pc, cur, fired,
                 touched, stopNote, startNote, cbOps>>

\* The loop refreshes loop->time between passes.
ApiUpdateTime ==
  /\ pc \in {"idle", "done"}
  /\ last = NoOp
  /\ time < WordMax
  /\ time' = time + 1
  /\ pc' = "idle"
  /\ cur' = NULL
  /\ fired' = <<>>
  /\ last' = NoOp
  /\ UNCHANGED <<heap, node, timer, timer_counter, touched, stopNote,
                 startNote, cbOps>>

\* uv__run_timers is called.
ApiRunTimersEnter ==
  /\ pc \in {"idle", "done"}
  /\ last = NoOp
  /\ pc' = "loop"
  /\ cur' = NULL
  /\ fired' = <<>>
  /\ last' = NoOp
  /\ UNCHANGED <<heap, node, timer, time, timer_counter, touched, stopNote,
                 startNote, cbOps>>

\* timeout arguments of uv_timer_start, the largest word among them.
ApiTimeouts == Timeouts \cup {WordMax}

\* The handles are those uv_timer_init has set up (Init).
ApiNext ==
  \/ \E h \in Handles, cb \in Callbacks, t \in ApiTimeouts, r \in Repeats :
       ApiStart(h, cb, t, r)
  \/ \E h \in Handles : ApiStop(h)
  \/ \E h \in Handles : ApiAgain(h)
  \/ \E h \in Handles : ApiClose(h)
  \/ ApiNextTimeout
  \/ \E h \in Handles : ApiGetDueIn(h)
  \/ ApiReturn
  \/ ApiUpdateTime
  \/ ApiRunTimersEnter
  \/ RunTimersStep
  \/ CbReturn

ApiSpec == Init /\ [][ApiNext]_vars

\* ------------------------------------------------------- claims on calls

\* C12: uv_timer_stop of a handle that is not active returns 0 and leaves the
\* heap (min, nelts, links), loop->timer_counter and the fields of every
\* handle as they were; so a second stop after a stop changes nothing.
C12_IdempotentStop ==
  [][(last'.op = "stop" /\ ~last'.was) =>
       /\ last'.rc = 0
       /\ UNCHANGED <<heap, node, timer, timer_counter>>]_vars

\* A handle that had been started was stopped while inactive, with at least
\* two other handles in the heap.
C12_Witness ==
  /\ last.op = "stop"
  /\ ~last.was
  /\ timer[last.h].timer_cb # NULL
  /\ heap.nelts >= 2

\* C13: after a uv_timer_start that returned 0 the deadline of the handle is
\* loop->time + timeout when the sum fits the unsigned word and the largest
\* word when it does not; it is never below loop->time.
C13_OverflowClamp ==
  (last.op = "start" /\ last.rc = 0) =>
    /\ timer[last.h].timeout =
         (IF time + last.timeout <= WordMax THEN time + last.timeout
          ELSE WordMax)
    /\ timer[last.h].timeout >= time

\* A start whose sum wrapped to a value that is not zero.
C13_Witness ==
  /\ last.op = "start"
  /\ last.rc = 0
  /\ time + last.timeout > WordMax + 1
  /\ time < WordMax

\* C14: uv_timer_start with a NULL callback, or on a closing handle, returns
\* UV_EINVAL, and a uv_timer_start that returns UV_EINVAL leaves the fields
\* of every handle, the heap and loop->timer_counter as they were: a handle
\* that was active keeps its place in the heap.
C14_StartRejects ==
  [][last'.op = "start" =>
       /\ (last'.cb = NULL \/ timer[last'.h].closing) <=>
            (last'.rc = UV_EINVAL)
       /\ last'.rc = UV_EINVAL =>
            UNCHANGED <<heap, node, timer, timer_counter>>]_vars

\* A start with a NULL callback of a handle that is active, not alone in
\* the heap.
C14_Witness ==
  /\ last.op = "start"
  /\ last.rc = UV_EINVAL
  /\ last.cb = NULL
  /\ last.was
  /\ heap.nelts >= 2

\* What C15 promises of a uv_timer_again step on handle h that returned 0.
Rescheduled(h) ==
  /\ timer[h].repeat # 0 =>
       /\ timer'[h].active
       /\ timer'[h].timeout = Saturated(time, timer[h].repeat)
       /\ timer'[h].repeat = timer[h].repeat
       /\ timer'[h].start_id >= timer_counter
       /\ \A g \in Handles \ {h} :
            timer'[g].active => timer'[h].start_id > timer'[g].start_id
  /\ timer[h].repeat = 0 => UNCHANGED <<heap, node, timer, timer_counter>>

\* C15 as stated: after a uv_timer_again that returned 0 on a handle with
\* repeat r # 0 the handle is active with deadline loop->time + r
\* (saturated), repeat r and a fresh start_id, whether it was active,
\* stopped, fired or closing before; with repeat 0 nothing changes.
C15_AgainReschedules ==
  [][(last'.op = "again" /\ last'.rc = 0) => Rescheduled(last'.h)]_vars

\* The same of handles that are not closing, which the code does satisfy.
C15_AgainOpen ==
  [][(last'.op = "again" /\ last'.rc = 0 /\ ~timer[last'.h].closing) =>
       Rescheduled(last'.h)]_vars

\* The deadlines of the active handles, and the smallest of them.
Deadlines == {timer[h].timeout : h \in Members}
MinDeadline == CHOOSE d \in Deadlines : \A e \in Deadlines : d <= e

\* C16: uv__next_timeout returns -1 iff the heap is empty, 0 iff the heap is
\* not empty and the smallest deadline of the active handles is <=
\* loop->time, and otherwise that deadline minus loop->time held to INT_MAX:
\* for a heap that is not empty the result is never negative and never more
\* than the time until the earliest deadline.
C16_NextTimeout ==
  last.op = "next_timeout" =>
    /\ (last.rc = 0 - 1) <=> (heap.nelts = 0)
    /\ (heap.nelts = 0) <=> (Members = {})
    /\ Members # {} =>
         /\ (last.rc = 0) <=> (MinDeadline <= time)
         /\ MinDeadline > time =>
              /\ last.rc = ClampInt(MinDeadline - time)
              /\ last.rc <= MinDeadline - time
         /\ last.rc >= 0

\* The earliest of several deadlines is further away than INT_MAX.
C16_Witness ==
  /\ last.op = "next_timeout"
  /\ heap.nelts >= 2
  /\ MinDeadline - time > IntMax
  /\ last.rc = IntMax

\* C17: uv_timer_get_due_in is the deadline minus loop->time, 0 when that
\* would be negative (no wrap of the unsigned difference): it is 0 exactly
\* when the deadline is <= loop->time, and for an unchanged deadline it does
\* not grow as loop->time grows.
C17_DueIn ==
  /\ last.op = "get_due_in" =>
       /\ last.rc = (IF timer[last.h].timeout - time > 0
                     THEN timer[last.h].timeout - time ELSE 0)
       /\ (last.rc = 0) <=> (timer[last.h].timeout <= time)
  /\ \A h \in Handles : \A t \in Word :
       t >= time =>
         uv_timer_get_due_in([World EXCEPT !.time = t], h)
           <= uv_timer_get_due_in(World, h)

\* The due-in of a handle whose deadline has passed.
C17_Witness ==
  /\ last.op = "get_due_in"
  /\ timer[last.h].timeout < time
  /\ timer[last.h].active

\* -------------------------------------- claims on the whole interface

\* How often node n occurs in the tree below heap.min.
Occurrences(n) == Cardinality({i \in Positions : At(i) = n})

\* C18: in every state reached through init, start, stop, again, close and
\* passes, the states inside callbacks included, a handle is active iff its
\* node is reachable from heap.min, an active handle occurs in the heap
\* once, and heap.nelts is the number of active handles; a start of a handle
\* that is active leaves heap.nelts as it was.
C18_ActiveIffInHeap ==
  /\ [](/\ \A n \in Nodes : timer[n].active <=> n \in Reach
        /\ \A n \in Nodes : timer[n].active => Occurrences(n) = 1
        /\ heap.nelts = Cardinality(Members))
  /\ [][(\E h \in Handles : /\ timer[h].active
                            /\ timer'[h].active
                            /\ timer'[h].start_id # timer[h].start_id)
          => heap'.nelts = heap.nelts]_vars

\* Inside a callback, after a call that started a handle, with a closed
\* handle out of the heap and two handles in it.
C18_Witness ==
  /\ pc = "cb"
  /\ heap.nelts >= 2
  /\ \E h \in Handles : timer[h].closing
  /\ \E h \in Handles : startNote[h] # "none"

\* C19: every start that succeeds (uv_timer_start, or uv_timer_again with a
\* repeat) gives the handle a start_id above that of every other active
\* handle, so two active handles never share a start_id and the comparator
\* puts exactly one of them before the other; and of the active handles
\* with one deadline a pass fires the one stamped first, so a handle
\* started again fires after those that were pending.
C19_FreshStartId ==
  /\ [](\A a, b \in Members :
          a # b => /\ timer[a].start_id # timer[b].start_id
                   /\ LessThan(timer)[a, b] # LessThan(timer)[b, a])
  /\ [][/\ timer_counter' # timer_counter =>
             \E h \in Handles :
               /\ timer'[h].active
               /\ timer'[h].start_id = timer_counter
               /\ \A g \in Handles \ {h} :
                    timer'[g].active => timer'[g].start_id < timer_counter
        /\ (pc = "loop" /\ pc' = "cb") =>
             \A g \in Handles \ {cur'} :
               (timer[g].active /\ timer[g].timeout = timer[cur'].timeout)
                 => timer[cur'].start_id < timer[g].start_id]_vars

\* Handle 1, started before handle 2 and then started again, was fired after
\* handle 2 with the same deadline.
C19_Witness ==
  /\ Len(fired) = 2
  /\ fired[1].h = 2
  /\ fired[2].h = 1
  /\ fired[1].timeout = fired[2].timeout

\* ------------------------------------------------ claims on membership

\* C20: heap_insert of a node x that is not in the heap makes the set of
\* nodes reachable from heap.min exactly the old set and x; heap_remove of a
\* node x of the heap (heap_dequeue: of heap.min) makes it exactly the old
\* set without x, wherever x was; every node left occurs once; heap_remove /
\* heap_dequeue of an empty heap changes nothing.
C20_Membership ==
  [][/\ last'.op = "insert" =>
          \E x \in Nodes \ Reach :
            /\ timer'[x].active /\ ~timer[x].active
            /\ Reach' = Reach \cup {x}
     /\ last'.op = "remove" =>
          \E x \in Reach :
            /\ timer[x].active /\ ~timer'[x].active
            /\ Reach' = Reach \ {x}
     /\ (last'.op = "dequeue" /\ heap.nelts > 0) => Reach' = Reach \ {heap.min}
     /\ (last'.op = "dequeue" /\ heap.nelts = 0) => UNCHANGED <<heap, node>>
     /\ \A n \in Nodes : n \in Reach' => Occurrences(n)' = 1]_vars

\* The node removed had children: the last node took its place and moved
\* down from there.
C20_Witness ==
  /\ last.op = "remove"
  /\ last.moved = "down"
  /\ heap.nelts >= 4

====
